---- MODULE Spec2Model ----
(***************************************************************************)
(* FsMeshQC: per-triangle quality metrics of a FreeSurfer surface mesh,    *)
(* their summary statistics, the bad-triangle classification and the       *)
(* report files written by one run of main.                                *)
(*                                                                         *)
(* Numbers.  The program computes in float64.  Here a finite float is a    *)
(* fixed-point integer counting units of 1/Scale, every product, quotient  *)
(* and square root is rounded to the nearest unit (as float64 rounds to    *)
(* the nearest double), and the non-finite floats are the explicit values  *)
(* PInf, NInf and NaN.  An array element is a record [k, v]: Fin(n), PInf, *)
(* NInf or NaN.  Angles are fixed-point degrees.                           *)
(***************************************************************************)
EXTENDS Integers, Sequences, FiniteSets, TLC

\* ------------------------------------------------------------ bounds

\* Units per 1.0 of the fixed-point arithmetic.
Scale == 100

\* Vertex coordinates of the geometry runs lie in 0..MaxCoord (x) and 0..1 (y, z).
MaxCoord == 2

\* Longest array handed to the summary in the statistics runs.
MaxLen == 4

\* Most faces of a mesh returned by the reader in the runs of main.
MaxFaces == 2

\* ------------------------------------------------------------ floats

Fin(n) == [k |-> "fin", v |-> n]

PInf == [k |-> "inf", v |-> 1]

NInf == [k |-> "inf", v |-> -1]

NaN == [k |-> "nan", v |-> 0]

\* np.isfinite
IsFinite(x) == x.k = "fin"

IsNaN(x) == x.k = "nan"

\* The float comparison x < y: false when either side is NaN.
Lt(x, y) ==
    /\ ~IsNaN(x)
    /\ ~IsNaN(y)
    /\ \/ x.k = "fin" /\ y.k = "fin" /\ x.v < y.v
       \/ x.k = "fin" /\ y = PInf
       \/ x = NInf /\ y.k = "fin"
       \/ x = NInf /\ y = PInf

\* x > y
Gt(x, y) == Lt(y, x)

\* n / d rounded to the nearest integer, d > 0.
RoundDiv(n, d) ==
    IF n >= 0 THEN (2 * n + d) \div (2 * d) ELSE -((2 * (-n) + d) \div (2 * d))

\* x * y of two finite fixed-point numbers.
FMul(x, y) == RoundDiv(x * y, Scale)

\* x / y of two finite fixed-point numbers, y # 0.
FQuot(x, y) == IF y > 0 THEN RoundDiv(x * Scale, y) ELSE RoundDiv(-x * Scale, -y)

\* The float division x / y of finite numbers, as numpy computes it: a zero
\* divisor gives NaN (0/0) or an infinity, with a warning and no exception.
FDiv(x, y) ==
    IF y # 0 THEN Fin(FQuot(x, y))
    ELSE IF x = 0 THEN NaN
    ELSE IF x > 0 THEN PInf ELSE NInf

RECURSIVE ISqrtBetween(_, _, _)
ISqrtBetween(n, lo, hi) ==
    IF lo >= hi THEN lo
    ELSE LET mid == (lo + hi + 1) \div 2
         IN IF mid * mid <= n THEN ISqrtBetween(n, mid, hi)
            ELSE ISqrtBetween(n, lo, mid - 1)

\* floor(sqrt(n)), n >= 0
ISqrt(n) == ISqrtBetween(n, 0, IF n < 46340 THEN n ELSE 46340)

\* np.sqrt of a finite fixed-point number x >= 0, rounded to the nearest unit.
FSqrt(x) ==
    LET n == x * Scale
        r == ISqrt(n)
    IN IF n - r * r > r THEN r + 1 ELSE r

\* np.clip(x, lo, hi) of a finite number
Clip(x, lo, hi) == IF x < lo THEN lo ELSE IF x > hi THEN hi ELSE x

Min2(x, y) == IF y < x THEN y ELSE x

Max2(x, y) == IF y > x THEN y ELSE x

\* np.degrees(np.arccos(x)) for x = (i - 101) / 100, i in 1..201, in 1/100 degree.
ArccosDegrees ==
  <<
     18000, 17189, 16852, 16593, 16374, 16181, 16005, 15843, 15693, 15551, 15416, 15287,
     15164, 15046, 14932, 14821, 14714, 14610, 14508, 14410, 14313, 14219, 14126, 14035,
     13946, 13859, 13773, 13689, 13605, 13523, 13443, 13363, 13284, 13207, 13130, 13054,
     12979, 12905, 12832, 12759, 12687, 12616, 12545, 12475, 12406, 12337, 12268, 12201,
     12133, 12066, 12000, 11934, 11869, 11803, 11739, 11674, 11610, 11547, 11483, 11420,
     11358, 11295, 11233, 11172, 11110, 11049, 10988, 10927, 10866, 10806, 10746, 10686,
     10626, 10566, 10507, 10448, 10389, 10330, 10271, 10212, 10154, 10095, 10037, 9979,
     9921, 9863, 9805, 9747, 9689, 9632, 9574, 9516, 9459, 9401, 9344, 9287,
     9229, 9172, 9115, 9057, 9000, 8943, 8885, 8828, 8771, 8713, 8656, 8599,
     8541, 8484, 8426, 8368, 8311, 8253, 8195, 8137, 8079, 8021, 7963, 7905,
     7846, 7788, 7729, 7670, 7611, 7552, 7493, 7434, 7374, 7314, 7254, 7194,
     7134, 7073, 7012, 6951, 6890, 6828, 6767, 6705, 6642, 6580, 6517, 6453,
     6390, 6326, 6261, 6197, 6131, 6066, 6000, 5934, 5867, 5799, 5732, 5663,
     5594, 5525, 5455, 5384, 5313, 5241, 5168, 5095, 5021, 4946, 4870, 4793,
     4716, 4637, 4557, 4477, 4395, 4311, 4227, 4141, 4054, 3965, 3874, 3781,
     3687, 3590, 3492, 3390, 3286, 3179, 3068, 2954, 2836, 2713, 2584, 2449,
     2307, 2157, 1995, 1819, 1626, 1407, 1148, 811, 0
  >>

\* np.degrees(np.arccos(x)) of a fixed-point x in [-1, 1], in fixed-point degrees.
AcosDeg(x) == RoundDiv(ArccosDegrees[RoundDiv(x * 100, Scale) + 101] * Scale, 100)

\* ------------------------------------------------------------ geometry kernel

\* A vertex is a triple of fixed-point coordinates.
VSub(p, r) == <<p[1] - r[1], p[2] - r[2], p[3] - r[3]>>

\* np.linalg.norm(e, axis=1) of one row
VNorm(e) == FSqrt(FMul(e[1], e[1]) + FMul(e[2], e[2]) + FMul(e[3], e[3]))

\* np.cross(u, w) of one row
VCross(u, w) ==
    << FMul(u[2], w[3]) - FMul(u[3], w[2]),
       FMul(u[3], w[1]) - FMul(u[1], w[3]),
       FMul(u[1], w[2]) - FMul(u[2], w[1]) >>

\* triangle_edges for the face f of F (0-based vertex indices into V, which is
\* the sequence Vs here): the edge vectors opposite each vertex and their lengths.
triangle_edges(Vs, f) ==
    LET v0 == Vs[f[1] + 1]
        v1 == Vs[f[2] + 1]
        v2 == Vs[f[3] + 1]
        e0 == VSub(v2, v1)
        e1 == VSub(v0, v2)
        e2 == VSub(v1, v0)
    IN [e0 |-> e0, e1 |-> e1, e2 |-> e2,
        a |-> VNorm(e0), b |-> VNorm(e1), c |-> VNorm(e2)]

\* area = 0.5 * || e2 x e0 ||
triangle_area_from_edges(e2, e0) == FMul(Scale \div 2, VNorm(VCross(e2, e0)))

\* One cosine of the law of cosines, before the clip: num / (den + 1e-15).
\* 1e-15 is far below one unit: it leaves a nonzero denominator as it is, and
\* makes a zero denominator the tiny positive 1e-15, so that 0/den is 0 and
\* any other numerator overshoots to beyond +-1.
CosOver(num, den) ==
    IF den # 0 THEN FQuot(num, den)
    ELSE IF num = 0 THEN 0
    ELSE IF num > 0 THEN 2 * Scale ELSE -2 * Scale

\* np.degrees(safe_acos(x)): the cosine is clipped to [-1, 1] first.
safe_acos(x) == AcosDeg(Clip(x, -Scale, Scale))

\* triangle_angles: the three interior angles in degrees.
triangle_angles(a, b, c) ==
    LET cosA == CosOver(FMul(b, b) + FMul(c, c) - FMul(a, a), FMul(FMul(2 * Scale, b), c))
        cosB == CosOver(FMul(c, c) + FMul(a, a) - FMul(b, b), FMul(FMul(2 * Scale, c), a))
        cosC == CosOver(FMul(a, a) + FMul(b, b) - FMul(c, c), FMul(FMul(2 * Scale, a), b))
    IN [A |-> safe_acos(cosA), B |-> safe_acos(cosB), C |-> safe_acos(cosC)]

\* triangle_inradius as the bare quotient area / s, without np.where.
triangle_inradius_unguarded(area, a, b, c) == FDiv(area, FMul(Scale \div 2, a + b + c))

\* triangle_inradius: np.where(s > 0, area / s, 0.0); area / s is evaluated
\* for every triangle and discarded where s is 0.
triangle_inradius(area, a, b, c) ==
    LET s == FMul(Scale \div 2, a + b + c)
        r == FDiv(area, s)
    IN IF s > 0 THEN r ELSE Fin(0)

\* The guard of triangle_circumradius, area > 1e-20: 1e-20 is below one unit.
AreaTol == 0

\* triangle_circumradius: a*b*c / (4*area) where area > 1e-20, else +inf.
triangle_circumradius(area, a, b, c) ==
    IF area > AreaTol
    THEN FDiv(FMul(FMul(a, b), c), FMul(4 * Scale, area))
    ELSE PInf

\* ------------------------------------------------------------ quality evaluator

\* The keys of the dictionary compute_mesh_quality returns.
QKeys ==
    {"area", "edge_a", "edge_b", "edge_c", "min_edge", "max_edge",
     "angle_A", "angle_B", "angle_C", "min_angle", "max_angle",
     "shape_quality", "radius_ratio", "aspect_proxy"}

\* shape_quality without the final np.clip.
shape_quality_unclipped(area, a, b, c) ==
    LET denom == FMul(a, a) + FMul(b, b) + FMul(c, c)
    IN IF denom > 0
       THEN FQuot(FMul(FMul(4 * Scale, FSqrt(3 * Scale)), area), denom)
       ELSE 0

\* shape_quality of one triangle: 0 where a^2+b^2+c^2 is 0, else
\* 4*sqrt(3)*area / (a^2+b^2+c^2), clipped to [0, 1].
shape_quality(area, a, b, c) ==
    LET denom == FMul(a, a) + FMul(b, b) + FMul(c, c)
        raw == IF denom > 0
               THEN FQuot(FMul(FMul(4 * Scale, FSqrt(3 * Scale)), area), denom)
               ELSE 0
    IN Clip(raw, 0, Scale)

\* radius_ratio of one triangle: 2*r_in/R_circ where R_circ is finite and
\* positive, else 0, clipped to [0, 1].
radius_ratio(r_in, R_circ) ==
    LET ok == IsFinite(R_circ) /\ Gt(R_circ, Fin(0))
        raw == IF ok THEN FQuot(FMul(2 * Scale, r_in.v), R_circ.v) ELSE 0
    IN Clip(raw, 0, Scale)

\* aspect_proxy of one triangle: np.where(sq > 0, 1.0 / sq, np.inf)
aspect_proxy(sq) ==
    LET inv == FDiv(Scale, sq)
    IN IF sq > 0 THEN inv ELSE PInf

\* The outputs of the geometry kernel for the face f.
KernelOf(Vs, f) ==
    LET e == triangle_edges(Vs, f)
        area == triangle_area_from_edges(e.e2, e.e0)
        ang == triangle_angles(e.a, e.b, e.c)
    IN [a |-> e.a, b |-> e.b, c |-> e.c, area |-> area,
        A |-> ang.A, B |-> ang.B, C |-> ang.C,
        r_in |-> triangle_inradius(area, e.a, e.b, e.c),
        R_circ |-> triangle_circumradius(area, e.a, e.b, e.c)]

\* The quality record of the face f: one entry of every array of the dictionary.
FaceQuality(Vs, f) ==
    LET g == KernelOf(Vs, f)
        sq == shape_quality(g.area, g.a, g.b, g.c)
    IN [area |-> Fin(g.area),
        edge_a |-> Fin(g.a), edge_b |-> Fin(g.b), edge_c |-> Fin(g.c),
        min_edge |-> Fin(Min2(Min2(g.a, g.b), g.c)),
        max_edge |-> Fin(Max2(Max2(g.a, g.b), g.c)),
        angle_A |-> Fin(g.A), angle_B |-> Fin(g.B), angle_C |-> Fin(g.C),
        min_angle |-> Fin(Min2(Min2(g.A, g.B), g.C)),
        max_angle |-> Fin(Max2(Max2(g.A, g.B), g.C)),
        shape_quality |-> Fin(sq),
        radius_ratio |-> Fin(radius_ratio(g.r_in, g.R_circ)),
        aspect_proxy |-> aspect_proxy(sq)]

\* The arrays of a sequence of per-face records: one array per key.
ColumnsOf(rows) == [key \in QKeys |-> [i \in 1..Len(rows) |-> rows[i][key]]]

\* compute_mesh_quality: a dictionary of arrays, one entry per face.
compute_mesh_quality(Vs, Fs) == ColumnsOf([i \in 1..Len(Fs) |-> FaceQuality(Vs, Fs[i])])

\* ------------------------------------------------------------ summary aggregator

\* The filter x[~np.isnan(x)] in place of x[np.isfinite(x)]: infinities stay.
RECURSIVE FiniteOnlyNotNaN(_)
FiniteOnlyNotNaN(x) ==
    IF x = <<>> THEN <<>>
    ELSE IF ~IsNaN(Head(x)) THEN <<Head(x).v>> \o FiniteOnlyNotNaN(Tail(x))
    ELSE FiniteOnlyNotNaN(Tail(x))

\* x[np.isfinite(x)]: the finite entries, in order, as plain numbers.
RECURSIVE FiniteOnly(_)
FiniteOnly(x) ==
    IF x = <<>> THEN <<>>
    ELSE IF IsFinite(Head(x)) THEN <<Head(x).v>> \o FiniteOnly(Tail(x))
    ELSE FiniteOnly(Tail(x))

\* s with the number n inserted before the first larger element.
RECURSIVE InsertSorted(_, _)
InsertSorted(s, n) ==
    IF s = <<>> THEN <<n>>
    ELSE IF n < Head(s) THEN <<n>> \o s
    ELSE <<Head(s)>> \o InsertSorted(Tail(s), n)

RECURSIVE SortAsc(_)
SortAsc(x) == IF x = <<>> THEN <<>> ELSE InsertSorted(SortAsc(SubSeq(x, 1, Len(x) - 1)), x[Len(x)])

RECURSIVE SumSeq(_)
SumSeq(x) == IF x = <<>> THEN 0 ELSE Head(x) + SumSeq(Tail(x))

\* np.min(x), x nonempty.
RECURSIVE SeqMin(_)
SeqMin(x) == IF Len(x) = 1 THEN x[1] ELSE Min2(Head(x), SeqMin(Tail(x)))

\* np.max(x), x nonempty.
RECURSIVE SeqMax(_)
SeqMax(x) == IF Len(x) = 1 THEN x[1] ELSE Max2(Head(x), SeqMax(Tail(x)))

\* np.percentile(x, p) with linear interpolation, x nonempty.
Percentile(x, p) ==
    LET s == SortAsc(x)
        h == (Len(x) - 1) * p
        lo == h \div 100 + 1
        hi == IF lo < Len(x) THEN lo + 1 ELSE lo
    IN s[lo] + RoundDiv((h % 100) * (s[hi] - s[lo]), 100)

\* np.median(x), x nonempty.
Median(x) ==
    LET s == SortAsc(x)
        n == Len(x)
    IN IF n % 2 = 1 THEN s[(n + 1) \div 2]
       ELSE RoundDiv(s[n \div 2] + s[n \div 2 + 1], 2)

\* stats: the record of one metric, over its finite entries only.
stats(arr) ==
    LET x == FiniteOnly(arr)
    IN IF Len(x) = 0 THEN [n |-> 0]
       ELSE [n |-> Len(x),
             mean |-> RoundDiv(SumSeq(x), Len(x)),
             median |-> Median(x),
             p05 |-> Percentile(x, 5),
             p25 |-> Percentile(x, 25),
             p75 |-> Percentile(x, 75),
             p95 |-> Percentile(x, 95),
             min |-> SeqMin(x),
             max |-> SeqMax(x)]

keys_of_interest ==
    {"shape_quality", "radius_ratio", "aspect_proxy", "min_angle", "max_angle",
     "area", "min_edge", "max_edge"}

\* summarize_quality: the statistics of each metric of interest.
summarize_quality(qdict) == [key \in keys_of_interest |-> stats(qdict[key])]

\* ------------------------------------------------------------ paths

\* A path or file name is the sequence of its characters.

\* The last position of the character ch in s, 0 when there is none.
RECURSIVE LastIndexOf(_, _)
LastIndexOf(s, ch) ==
    IF s = <<>> THEN 0
    ELSE IF s[Len(s)] = ch THEN Len(s)
    ELSE LastIndexOf(SubSeq(s, 1, Len(s) - 1), ch)

\* Path(p).name
PathName(p) == SubSeq(p, LastIndexOf(p, "/") + 1, Len(p))

\* Path(p).parent, as_posix: "." for a bare file name.
PathParent(p) ==
    LET i == LastIndexOf(p, "/")
    IN IF i = 0 THEN <<".">>
       ELSE IF i = 1 THEN <<"/">>
       ELSE SubSeq(p, 1, i - 1)

\* Path(p).suffix: the name from its last dot on, when that dot is neither
\* the first nor the last character of the name.
PathSuffix(p) ==
    LET name == PathName(p)
        i == LastIndexOf(name, ".")
    IN IF 1 < i /\ i < Len(name) THEN SubSeq(name, i, Len(name)) ELSE <<>>

\* Path(p).with_suffix("").as_posix(): p without the suffix of its name.
WithoutSuffix(p) == SubSeq(p, 1, Len(p) - Len(PathSuffix(p)))

QualityEnding == <<"_", "q", "u", "a", "l", "i", "t", "y">>

FacesCsvEnding == <<"_", "f", "a", "c", "e", "s", ".", "c", "s", "v">>

FacesParquetEnding == <<"_", "f", "a", "c", "e", "s", ".", "p", "a", "r", "q", "u", "e", "t">>

FacesNpzEnding == <<"_", "f", "a", "c", "e", "s", ".", "n", "p", "z">>

SummaryJsonEnding == <<"_", "s", "u", "m", "m", "a", "r", "y", ".", "j", "s", "o", "n">>

BadFacesCsvEnding == <<"_", "b", "a", "d", "_", "f", "a", "c", "e", "s", ".", "c", "s", "v">>

\* The output prefix main sets when -o is not given.
DefaultOutput(input_surf) == WithoutSuffix(input_surf) \o QualityEnding

\* The name save_mesh_quality gives an output file.
OutputFile(out_prefix, ending) == WithoutSuffix(out_prefix) \o ending

\* ------------------------------------------------------------ report writer

\* The mask with & in place of |: both defects needed.
MainBadMaskAnd(qdict, sq_thresh, angle_thresh) ==
    [i \in 1..Len(qdict.shape_quality) |->
        Lt(qdict.shape_quality[i], sq_thresh) /\ Lt(qdict.min_angle[i], angle_thresh)]

\* main: the mask of low-quality triangles it counts.
MainBadMask(qdict, sq_thresh, angle_thresh) ==
    [i \in 1..Len(qdict.shape_quality) |->
        Lt(qdict.shape_quality[i], sq_thresh) \/ Lt(qdict.min_angle[i], angle_thresh)]

\* save_mesh_quality: the mask of the faces it exports as bad.
SaveBadMask(qdict, bad_sq_thresh, bad_minangle_thresh) ==
    [i \in 1..Len(qdict.shape_quality) |->
        Lt(qdict.shape_quality[i], bad_sq_thresh)
        \/ Lt(qdict.min_angle[i], bad_minangle_thresh)]

\* np.sum(bad_mask)
CountTrue(mask) == Cardinality({i \in DOMAIN mask : mask[i]})

\* faces_df: the per-face table, one row per face.
FacesTable(qdict, Fs) ==
    [i \in 1..Len(Fs) |->
        [face_id |-> i - 1, v0 |-> Fs[i][1], v1 |-> Fs[i][2], v2 |-> Fs[i][3],
         area |-> qdict.area[i],
         edge_a |-> qdict.edge_a[i], edge_b |-> qdict.edge_b[i], edge_c |-> qdict.edge_c[i],
         min_edge |-> qdict.min_edge[i], max_edge |-> qdict.max_edge[i],
         angle_A |-> qdict.angle_A[i], angle_B |-> qdict.angle_B[i],
         angle_C |-> qdict.angle_C[i],
         min_angle |-> qdict.min_angle[i], max_angle |-> qdict.max_angle[i],
         shape_quality |-> qdict.shape_quality[i],
         radius_ratio |-> qdict.radius_ratio[i],
         aspect_proxy |-> qdict.aspect_proxy[i]]]

\* The order of sort_values(by=["shape_quality"]): no second key.
RowBeforeSqOnly(r, t) == Lt(r.shape_quality, t.shape_quality)

\* The order of sort_values(by=["shape_quality", "min_angle"]): row r comes
\* strictly before row t.
RowBefore(r, t) ==
    \/ Lt(r.shape_quality, t.shape_quality)
    \/ r.shape_quality = t.shape_quality /\ Lt(r.min_angle, t.min_angle)

RECURSIVE InsertRow(_, _)
InsertRow(rows, r) ==
    IF rows = <<>> THEN <<r>>
    ELSE IF RowBefore(r, Head(rows)) THEN <<r>> \o rows
    ELSE <<Head(rows)>> \o InsertRow(Tail(rows), r)

\* sort_values on two keys: a stable sort, rows that tie keep their order.
RECURSIVE SortRows(_)
SortRows(rows) ==
    IF rows = <<>> THEN <<>>
    ELSE InsertRow(SortRows(SubSeq(rows, 1, Len(rows) - 1)), rows[Len(rows)])

\* faces_df.loc[bad_idx], sorted.
BadTable(table, mask) ==
    LET IsBad(r) == mask[r.face_id + 1]
    IN SortRows(SelectSeq(table, IsBad))

NoFiles == [name \in {} |-> 0]

\* One file written when on, none otherwise.
WriteIf(on, name, content) == IF on THEN name :> content ELSE NoFiles

\* save_mesh_quality: the directory it makes, the files it writes and what it
\* prints.
save_mesh_quality(qdict, Fs, out_prefix, save_csv, save_parquet, save_npz, save_summary_json, bad_sq_thresh, bad_minangle_thresh) ==
    LET faces_df == FacesTable(qdict, Fs)
        bad_mask_s == SaveBadMask(qdict, bad_sq_thresh, bad_minangle_thresh)
        n_bad == CountTrue(bad_mask_s)
        csv == WriteIf(save_csv, OutputFile(out_prefix, FacesCsvEnding),
                       [kind |-> "csv", rows |-> faces_df])
        parquet == WriteIf(save_parquet, OutputFile(out_prefix, FacesParquetEnding),
                           [kind |-> "parquet", rows |-> faces_df])
        npz == WriteIf(save_npz, OutputFile(out_prefix, FacesNpzEnding),
                       [kind |-> "npz",
                        face_id |-> [i \in 1..Len(Fs) |-> i - 1],
                        F |-> Fs,
                        arrays |-> qdict])
        json == WriteIf(save_summary_json, OutputFile(out_prefix, SummaryJsonEnding),
                        [kind |-> "json", summary |-> summarize_quality(qdict)])
        bad == WriteIf(n_bad > 0, OutputFile(out_prefix, BadFacesCsvEnding),
                       [kind |-> "csv", rows |-> BadTable(faces_df, bad_mask_s)])
    IN [dir |-> PathParent(out_prefix),
        files |-> bad @@ json @@ npz @@ parquet @@ csv,
        n_bad |-> n_bad]

\* ------------------------------------------------------------ command line

\* The option flags of the command line that change a default.
Flags == {"--no-csv", "--parquet", "--no-npz", "--no-json", "--summary-only"}

\* parse_arguments with --no-npz given dest="csv": --no-npz switches the CSV
\* off and nothing switches the NPZ off.
parse_arguments_npz_dest_csv(cmd) ==
    [input_surf |-> cmd.input,
     output |-> cmd.output,
     csv |-> "--no-csv" \notin cmd.flags /\ "--no-npz" \notin cmd.flags,
     parquet |-> "--parquet" \in cmd.flags,
     npz |-> TRUE,
     json |-> "--no-json" \notin cmd.flags,
     bad_sq_thresh |-> cmd.bad_sq_thresh,
     bad_angle_thresh |-> cmd.bad_angle_thresh,
     summary_only |-> "--summary-only" \in cmd.flags]

\* parse_arguments: the namespace of a command line given as the set of its
\* flags, the -i and -o values (<<>> for no -o) and the two thresholds.
parse_arguments(cmd) ==
    [input_surf |-> cmd.input,
     output |-> cmd.output,
     csv |-> "--no-csv" \notin cmd.flags,
     parquet |-> "--parquet" \in cmd.flags,
     npz |-> "--no-npz" \notin cmd.flags,
     json |-> "--no-json" \notin cmd.flags,
     bad_sq_thresh |-> cmd.bad_sq_thresh,
     bad_angle_thresh |-> cmd.bad_angle_thresh,
     summary_only |-> "--summary-only" \in cmd.flags]

\* ------------------------------------------------------------ inputs

InputPaths == {<<"d", "/", "l", "h", ".", "w", "h", "i", "t", "e">>, <<"d", "/", "l", "h", ".", "p", "i", "a", "l">>}

\* <<>> is no -o option.
OutputOptions == {<<>>, <<"o", "/", "r", ".", "q">>}

\* (--bad-sq-thresh, --bad-angle-thresh): the defaults 0.2 and 10.0 degrees, and
\* each threshold raised alone, to 0.9 and to 50.0 degrees.
ThresholdPairs ==
    { <<Fin(Scale \div 5), Fin(10 * Scale)>>,
      <<Fin(Scale \div 5), Fin(50 * Scale)>>,
      <<Fin((9 * Scale) \div 10), Fin(10 * Scale)>> }

CommandLines ==
    { [flags |-> fl, input |-> inp, output |-> outp,
       bad_sq_thresh |-> t[1], bad_angle_thresh |-> t[2]] :
         fl \in SUBSET Flags, inp \in InputPaths, outp \in OutputOptions,
         t \in ThresholdPairs }

Pt(x, y, z) == <<x * Scale, y * Scale, z * Scale>>

\* The vertex array of the surfaces read in the runs of main: the unit right
\* tetrahedron.
SurfVertices == <<Pt(0, 0, 0), Pt(1, 0, 0), Pt(0, 1, 0), Pt(0, 0, 1)>>

\* The faces a surface is made of: a right triangle, the equilateral face,
\* a face with two coincident vertices and one with three.
SurfFaces == {<<0, 1, 2>>, <<1, 2, 3>>, <<0, 0, 1>>, <<0, 0, 0>>}

RECURSIVE SeqsUpTo(_, _)
SeqsUpTo(S, n) ==
    IF n = 0 THEN {<<>>}
    ELSE LET shorter == SeqsUpTo(S, n - 1)
         IN shorter \cup {Append(t, e) : t \in shorter, e \in S}

\* The face arrays read_freesurfer_surf may return, a surface of no face included.
SurfMeshes == SeqsUpTo(SurfFaces, MaxFaces)

\* ------------------------------------------------------------ state

VARIABLES
    argv,        \* the command line of the run
    args,        \* main: the parsed namespace, <<>> before parse_arguments
    pc,          \* where the run is
    V,           \* the vertex array read, <<>> before
    F,           \* the face array read, <<>> before
    kern,        \* the geometry kernel's per-face outputs (geometry runs)
    q,           \* the quality dictionary, <<>> before it is computed
    summary,     \* the summary, <<>> before it is computed
    bad_mask,    \* main: the low-quality mask, <<>> before it is computed
    bad_count,   \* main: the low-quality count, -1 before it is computed
    stdout,      \* what the run has printed
    files,       \* the files written: name -> content
    dirs,        \* the directories made
    exit_code,   \* the exit status of the process, -1 while it runs
    exc          \* the uncaught exception that ended the run, "" for none

vars ==
    <<argv, args, pc, V, F, kern, q, summary, bad_mask, bad_count, stdout,
      files, dirs, exit_code, exc>>

NoOutput == [err |-> <<>>, lines |-> <<>>, bad |-> <<>>, saved |-> {}, info |-> FALSE]

\* The run's own state before it has done anything.
BlankRun ==
    /\ args = <<>>
    /\ bad_mask = <<>>
    /\ bad_count = -1
    /\ stdout = NoOutput
    /\ files = NoFiles
    /\ dirs = {}
    /\ exit_code = -1
    /\ exc = ""

\* ------------------------------------------------------------ main

Init ==
    /\ argv \in CommandLines
    /\ pc = "start"
    /\ BlankRun
    /\ V = <<>>
    /\ F = <<>>
    /\ kern = <<>>
    /\ q = <<>>
    /\ summary = <<>>

\* args = parse_arguments()
ParseArgs ==
    /\ pc = "start"
    /\ args' = parse_arguments(argv)
    /\ pc' = "check"
    /\ UNCHANGED <<argv, V, F, kern, q, summary, bad_mask, bad_count, stdout,
                   files, dirs, exit_code, exc>>

\* os.path.isfile(args.input_surf) is false: the error message and sys.exit(1).
InputMissing ==
    /\ pc = "check"
    /\ stdout' = [stdout EXCEPT !.err = <<"input file not found">>]
    /\ exit_code' = 1
    /\ pc' = "done"
    /\ UNCHANGED <<argv, args, V, F, kern, q, summary, bad_mask, bad_count,
                   files, dirs, exc>>

\* The input is a file: the output prefix is set when -o was not given.
SetOutputPrefix ==
    /\ pc = "check"
    /\ args' = IF args.output = <<>>
               THEN [args EXCEPT !.output = DefaultOutput(args.input_surf)]
               ELSE args
    /\ pc' = "read"
    /\ UNCHANGED <<argv, V, F, kern, q, summary, bad_mask, bad_count, stdout,
                   files, dirs, exit_code, exc>>

\* read_freesurfer_surf raises: the error message and sys.exit(1).
ReadFails ==
    /\ pc = "read"
    /\ stdout' = [stdout EXCEPT !.err = <<"reading the surface failed">>]
    /\ exit_code' = 1
    /\ pc' = "done"
    /\ UNCHANGED <<argv, args, V, F, kern, q, summary, bad_mask, bad_count,
                   files, dirs, exc>>

\* read_freesurfer_surf returns a surface.
ReadSurf ==
    /\ pc = "read"
    /\ \E Fs \in SurfMeshes :
          /\ V' = SurfVertices
          /\ F' = Fs
    /\ pc' = "compute"
    /\ UNCHANGED <<argv, args, kern, q, summary, bad_mask, bad_count, stdout,
                   files, dirs, exit_code, exc>>

\* q = compute_mesh_quality(V, F); summary = summarize_quality(q)
ComputeQuality ==
    /\ pc = "compute"
    /\ q' = compute_mesh_quality(V, F)
    /\ summary' = summarize_quality(q')
    /\ pc' = "print"
    /\ UNCHANGED <<argv, args, V, F, kern, bad_mask, bad_count, stdout,
                   files, dirs, exit_code, exc>>

\* The statistics the two summary lines read from a metric's record.
PrintedStats == {"median", "mean", "min"}

\* The line main prints for one metric.
SummaryLine(key, rec) ==
    [metric |-> key, median |-> rec.median, mean |-> rec.mean, min |-> rec.min]

\* The two summary lines are printed.
PrintSummary ==
    /\ pc = "print"
    /\ PrintedStats \subseteq DOMAIN summary.shape_quality
    /\ PrintedStats \subseteq DOMAIN summary.min_angle
    /\ stdout' = [stdout EXCEPT !.lines =
                     << SummaryLine("shape_quality", summary.shape_quality),
                        SummaryLine("min_angle", summary.min_angle) >>]
    /\ pc' = "count"
    /\ UNCHANGED <<argv, args, V, F, kern, q, summary, bad_mask, bad_count,
                   files, dirs, exit_code, exc>>

\* A summary line reads a statistic its record does not hold: the KeyError
\* is not caught, and the interpreter ends the process with status 1.
PrintSummaryRaises ==
    /\ pc = "print"
    /\ \/ ~(PrintedStats \subseteq DOMAIN summary.shape_quality)
       \/ ~(PrintedStats \subseteq DOMAIN summary.min_angle)
    /\ stdout' = [stdout EXCEPT !.lines =
                     IF PrintedStats \subseteq DOMAIN summary.shape_quality
                     THEN <<SummaryLine("shape_quality", summary.shape_quality)>>
                     ELSE <<>>]
    /\ exc' = "KeyError"
    /\ exit_code' = 1
    /\ pc' = "done"
    /\ UNCHANGED <<argv, args, V, F, kern, q, summary, bad_mask, bad_count,
                   files, dirs>>

\* The low-quality triangles are counted and the count is printed.
CountBad ==
    /\ pc = "count"
    /\ bad_mask' = MainBadMask(q, args.bad_sq_thresh, args.bad_angle_thresh)
    /\ bad_count' = CountTrue(bad_mask')
    /\ stdout' = [stdout EXCEPT !.bad =
                     << [bad_count |-> bad_count',
                         total_count |-> Len(F),
                         bad_percent |->
                            IF Len(F) = 0 THEN NaN
                            ELSE Fin(RoundDiv(bad_count' * 100 * Scale, Len(F)))] >>]
    /\ pc' = "save"
    /\ UNCHANGED <<argv, args, V, F, kern, q, summary, files, dirs, exit_code, exc>>

\* if args.summary_only: return
ReturnSummaryOnly ==
    /\ pc = "save"
    /\ args.summary_only
    /\ exit_code' = 0
    /\ pc' = "done"
    /\ UNCHANGED <<argv, args, V, F, kern, q, summary, bad_mask, bad_count,
                   stdout, files, dirs, exc>>

\* The call with the two thresholds in each other's place.
MainSaveSwapped ==
    save_mesh_quality(q, F, args.output, args.csv, args.parquet, args.npz,
                      args.json, args.bad_angle_thresh, args.bad_sq_thresh)

\* The call of save_mesh_quality with main's arguments.
MainSave ==
    save_mesh_quality(q, F, args.output, args.csv, args.parquet, args.npz,
                      args.json, args.bad_sq_thresh, args.bad_angle_thresh)

\* save_mesh_quality(...), and main returns.
SaveResults ==
    /\ pc = "save"
    /\ ~args.summary_only
    /\ LET saved == MainSave
       IN /\ dirs' = dirs \cup {saved.dir}
          /\ files' = saved.files @@ files
          /\ stdout' = [stdout EXCEPT !.saved = DOMAIN saved.files,
                                      !.info = (saved.n_bad = 0)]
    /\ exit_code' = 0
    /\ pc' = "done"
    /\ UNCHANGED <<argv, args, V, F, kern, q, summary, bad_mask, bad_count, exc>>

Next ==
    \/ ParseArgs
    \/ InputMissing
    \/ SetOutputPrefix
    \/ ReadFails
    \/ ReadSurf
    \/ ComputeQuality
    \/ PrintSummary
    \/ PrintSummaryRaises
    \/ CountBad
    \/ ReturnSummaryOnly
    \/ SaveResults

Spec == Init /\ [][Next]_vars

\* ------------------------------------------------------------ geometry runs

\* compute_mesh_quality on every triangle with vertices on a small lattice:
\* first the geometry kernel's outputs, then the quality dictionary.

LatticePoints == {Pt(x, y, z) : x \in 0..MaxCoord, y \in 0..1, z \in 0..1}

GeomInit ==
    /\ argv = <<>>
    /\ pc = "geom"
    /\ BlankRun
    /\ V \in {<<p0, p1, p2>> : p0 \in LatticePoints, p1 \in LatticePoints, p2 \in LatticePoints}
    /\ F = << <<0, 1, 2>> >>
    /\ kern = <<>>
    /\ q = <<>>
    /\ summary = <<>>

\* The geometry kernel's outputs for every face.
GeomKernel ==
    /\ pc = "geom"
    /\ kern' = [i \in 1..Len(F) |-> KernelOf(V, F[i])]
    /\ pc' = "geom_quality"
    /\ UNCHANGED <<argv, args, V, F, q, summary, bad_mask, bad_count, stdout,
                   files, dirs, exit_code, exc>>

\* q = compute_mesh_quality(V, F)
GeomQuality ==
    /\ pc = "geom_quality"
    /\ q' = compute_mesh_quality(V, F)
    /\ pc' = "geom_done"
    /\ UNCHANGED <<argv, args, V, F, kern, summary, bad_mask, bad_count, stdout,
                   files, dirs, exit_code, exc>>

GeomNext ==
    \/ GeomKernel
    \/ GeomQuality

SpecGeom == GeomInit /\ [][GeomNext]_vars

\* ------------------------------------------------------------ statistics runs

\* summarize_quality on dictionaries whose arrays hold finite and non-finite
\* entries.

\* The entries of the arrays: 0.1, 0.3, 0.5, NaN, +inf and -inf.
StatsEntries ==
    {Fin(Scale \div 10), Fin((3 * Scale) \div 10), Fin(Scale \div 2), NaN, PInf, NInf}

\* A different offset for each key, so that no two arrays of a dictionary
\* hold the same finite values.
KeyOffset(key) ==
    CASE key = "shape_quality" -> 0
      [] key = "radius_ratio" -> 2
      [] key = "aspect_proxy" -> 4
      [] key = "min_angle" -> 6
      [] key = "max_angle" -> 8
      [] key = "area" -> 10
      [] key = "min_edge" -> 12
      [] key = "max_edge" -> 14
      [] OTHER -> 16

\* The array x with every finite entry raised by d.
Raised(x, d) == [i \in 1..Len(x) |-> IF IsFinite(x[i]) THEN Fin(x[i].v + d) ELSE x[i]]

\* The dictionary whose shape_quality array is x.
StatsDict(x) == [key \in QKeys |-> Raised(x, KeyOffset(key))]

StatsInit ==
    /\ argv = <<>>
    /\ pc = "stats"
    /\ BlankRun
    /\ V = <<>>
    /\ F = <<>>
    /\ kern = <<>>
    /\ q \in {StatsDict(x) : x \in SeqsUpTo(StatsEntries, MaxLen)}
    /\ summary = <<>>

\* summary = summarize_quality(q)
StatsSummarize ==
    /\ pc = "stats"
    /\ summary' = summarize_quality(q)
    /\ pc' = "stats_done"
    /\ UNCHANGED <<argv, args, V, F, kern, q, bad_mask, bad_count, stdout,
                   files, dirs, exit_code, exc>>

StatsNext == StatsSummarize

SpecStats == StatsInit /\ [][StatsNext]_vars

\* ------------------------------------------------------------ properties of a run

EndsWith(name, ending) ==
    /\ Len(name) >= Len(ending)
    /\ SubSeq(name, Len(name) - Len(ending) + 1, Len(name)) = ending

FilesEnding(ending) == {name \in DOMAIN files : EndsWith(name, ending)}

BadFiles == FilesEnding(BadFacesCsvEnding)

FacesCsvFiles == FilesEnding(FacesCsvEnding) \ BadFiles

FacesParquetFiles == FilesEnding(FacesParquetEnding)

FacesNpzFiles == FilesEnding(FacesNpzEnding)

SummaryJsonFiles == FilesEnding(SummaryJsonEnding)

\* The rows of the bad-faces table written, none when no table was written.
BadRows == IF BadFiles = {} THEN <<>> ELSE files[CHOOSE name \in BadFiles : TRUE].rows

\* The run called save_mesh_quality and returned from main.
SaveDone == pc = "done" /\ exit_code = 0 /\ ~args.summary_only

\* The run read a surface and has ended.
RunDoneAfterRead == pc = "done" /\ V # <<>>

\* Face i (1-based in the arrays) has a defect under the run's thresholds.
LowShapeQuality(i) == q.shape_quality[i].v < args.bad_sq_thresh.v

LowMinAngle(i) == q.min_angle[i].v < args.bad_angle_thresh.v

FaceIsBad(i) == LowShapeQuality(i) \/ LowMinAngle(i)

InBadRows(i) == \E k \in 1..Len(BadRows) : BadRows[k].face_id = i - 1

DefaultThresholds ==
    /\ args.bad_sq_thresh = Fin(Scale \div 5)
    /\ args.bad_angle_thresh = Fin(10 * Scale)

\* C1: a triangle is classified bad iff shape_quality < bad_sq_thresh or
\* min_angle < bad_angle_thresh (strict, logical or), in the count main
\* computes and in the bad-face export of save_mesh_quality alike.
C1_BadIffEitherDefect ==
    /\ bad_count >= 0 =>
          /\ DOMAIN bad_mask = 1..Len(F)
          /\ \A i \in 1..Len(F) : bad_mask[i] <=> FaceIsBad(i)
          /\ bad_count = Cardinality({i \in 1..Len(F) : FaceIsBad(i)})
          /\ stdout.bad[1].bad_count = bad_count
    /\ SaveDone => \A i \in 1..Len(F) : InBadRows(i) <=> FaceIsBad(i)

\* C1 witness: under the default thresholds a face with a low shape quality
\* alone (its minimum angle is not low) is counted and exported, and another
\* face with neither defect is not.
C1_Witness ==
    /\ SaveDone
    /\ DefaultThresholds
    /\ \E i \in 1..Len(F) :
          LowShapeQuality(i) /\ ~LowMinAngle(i) /\ bad_mask[i] /\ InBadRows(i)
    /\ \E j \in 1..Len(F) : ~FaceIsBad(j) /\ ~bad_mask[j] /\ ~InBadRows(j)

\* r is not after t in the order (shape_quality, min_angle).
RowNotAfter(r, t) ==
    \/ r.shape_quality.v < t.shape_quality.v
    \/ r.shape_quality.v = t.shape_quality.v /\ r.min_angle.v <= t.min_angle.v

\* C2: the bad-faces table holds exactly the rows of the per-face table whose
\* face is flagged bad, each with its face_id and metric values, sorted
\* ascending by shape_quality and, on ties, by min_angle.
C2_BadTableExactAndSorted ==
    (SaveDone /\ BadFiles # {}) =>
        /\ Len(BadRows) = Cardinality({i \in 1..Len(F) : FaceIsBad(i)})
        /\ \A i \in 1..Len(F) : FaceIsBad(i) => InBadRows(i)
        /\ \A k \in 1..Len(BadRows) :
              /\ BadRows[k].face_id + 1 \in 1..Len(F)
              /\ FaceIsBad(BadRows[k].face_id + 1)
              /\ BadRows[k] = FacesTable(q, F)[BadRows[k].face_id + 1]
              /\ BadRows[k].shape_quality = q.shape_quality[BadRows[k].face_id + 1]
              /\ BadRows[k].min_angle = q.min_angle[BadRows[k].face_id + 1]
              /\ \A name \in FacesCsvFiles :
                    BadRows[k] = files[name].rows[BadRows[k].face_id + 1]
        /\ \A j \in 1..Len(BadRows) : \A k \in 1..Len(BadRows) :
              j < k => RowNotAfter(BadRows[j], BadRows[k])

\* C2 witness: a bad-faces table of two rows that tie on shape_quality and
\* differ in min_angle, written in the opposite of their face order.
C2_Witness ==
    /\ SaveDone
    /\ Len(BadRows) = 2
    /\ BadRows[1].shape_quality = BadRows[2].shape_quality
    /\ BadRows[1].min_angle.v < BadRows[2].min_angle.v
    /\ BadRows[1].face_id > BadRows[2].face_id

\* C3: a run exits with code 1, after an error message, if the input file
\* does not exist or the reader fails, and with code 0 in every other case.
C3_ExitCode ==
    pc = "done" => exit_code = (IF stdout.err # <<>> THEN 1 ELSE 0)

\* C4: with --summary-only a run writes no file and makes no directory, and
\* the summary is still computed and printed.
C4_SummaryOnly ==
    (RunDoneAfterRead /\ args.summary_only) =>
        /\ DOMAIN files = {}
        /\ dirs = {}
        /\ DOMAIN summary = keys_of_interest
        /\ Len(stdout.lines) = 2

\* The part of C4 about the file system alone: whatever the other flags and
\* the thresholds, a --summary-only run writes no file and makes no directory.
SummaryOnlyWritesNothing ==
    (pc # "start" /\ "--summary-only" \in argv.flags) => DOMAIN files = {} /\ dirs = {}

NoFormatFlag ==
    /\ "--no-csv" \in argv.flags
    /\ "--parquet" \notin argv.flags
    /\ "--no-npz" \in argv.flags
    /\ "--no-json" \in argv.flags

\* C5 as stated: each output file is written only when its own enabling
\* option is on, and with every format flag disabled no file is written.
C5_Original ==
    SaveDone =>
        /\ FacesCsvFiles # {} => "--no-csv" \notin argv.flags
        /\ FacesParquetFiles # {} => "--parquet" \in argv.flags
        /\ FacesNpzFiles # {} => "--no-npz" \notin argv.flags
        /\ SummaryJsonFiles # {} => "--no-json" \notin argv.flags
        /\ NoFormatFlag => DOMAIN files = {}

\* C5 amended: each of the per-face CSV, per-face Parquet, per-face NPZ and
\* summary JSON is written iff its own flag is on, whatever the other flags;
\* the bad-faces table has no flag and is written iff some face is flagged
\* bad; nothing else is written.
C5_OutputsToggledApart ==
    SaveDone =>
        /\ FacesCsvFiles # {} <=> "--no-csv" \notin argv.flags
        /\ FacesParquetFiles # {} <=> "--parquet" \in argv.flags
        /\ FacesNpzFiles # {} <=> "--no-npz" \notin argv.flags
        /\ SummaryJsonFiles # {} <=> "--no-json" \notin argv.flags
        /\ BadFiles # {} <=> \E i \in 1..Len(F) : FaceIsBad(i)
        /\ DOMAIN files =
              FacesCsvFiles \cup FacesParquetFiles \cup FacesNpzFiles
                 \cup SummaryJsonFiles \cup BadFiles
        /\ Cardinality(DOMAIN files) =
              Cardinality({fl \in {"--parquet"} : fl \in argv.flags})
              + Cardinality({"--no-csv", "--no-npz", "--no-json"} \ argv.flags)
              + (IF \E i \in 1..Len(F) : FaceIsBad(i) THEN 1 ELSE 0)

\* C5 witness: every format flag is off and the bad-faces table alone is
\* written.
C5_Witness ==
    /\ SaveDone
    /\ NoFormatFlag
    /\ BadFiles # {}
    /\ DOMAIN files = BadFiles

OutputEndings ==
    {FacesCsvEnding, FacesParquetEnding, FacesNpzEnding, SummaryJsonEnding,
     BadFacesCsvEnding}

\* C9: without -o the output prefix is the input file name with "_quality"
\* appended, in the input's directory; a given prefix is used unchanged; every
\* output file name is the prefix followed by its fixed ending.
C9_OutputNames ==
    /\ (pc \notin {"start", "check"} /\ argv.output = <<>>) =>
          args.output = argv.input \o QualityEnding
    /\ (pc # "start" /\ argv.output # <<>>) => args.output = argv.output
    /\ SaveDone =>
          \A name \in DOMAIN files :
             \E ending \in OutputEndings : name = args.output \o ending

\* C10: in a run that is not summary-only, the number of low-quality
\* triangles main prints is the number of rows of the bad-faces table, and is
\* 0 exactly when no bad-faces table is written.
C10_PrintedCountIsExported ==
    SaveDone =>
        /\ Len(stdout.bad) = 1
        /\ stdout.bad[1].bad_count = Len(BadRows)
        /\ stdout.bad[1].bad_count = 0 <=> BadFiles = {}
        /\ stdout.info <=> BadFiles = {}

\* C10 witness: a run that prints one low-quality triangle of two and writes
\* a bad-faces table of one row.
C10_Witness ==
    /\ SaveDone
    /\ Len(F) = 2
    /\ stdout.bad[1].bad_count = 1
    /\ Len(BadRows) = 1

\* ------------------------------------------------------------ properties of the summary

\* The positions of the finite entries of an array.
FinitePositions(arr) == {i \in 1..Len(arr) : arr[i].k = "fin"}

NumBelow(arr, m) == Cardinality({i \in FinitePositions(arr) : arr[i].v < m})

NumAtMost(arr, m) == Cardinality({i \in FinitePositions(arr) : arr[i].v <= m})

\* m is the j-th smallest of the finite entries of arr.
IsRanked(arr, m, j) ==
    /\ \E i \in FinitePositions(arr) : arr[i].v = m
    /\ NumBelow(arr, m) < j
    /\ NumAtMost(arr, m) >= j

\* rec is the record of the finite entries of arr: their number, least,
\* greatest and median; only the count, 0, when there is none.
StatsOfFinite(arr, rec) ==
    LET n == Cardinality(FinitePositions(arr))
    IN IF n = 0
       THEN DOMAIN rec = {"n"} /\ rec.n = 0
       ELSE /\ DOMAIN rec = {"n", "mean", "median", "p05", "p25", "p75", "p95", "min", "max"}
            /\ rec.n = n
            /\ IsRanked(arr, rec.min, 1)
            /\ IsRanked(arr, rec.max, n)
            /\ IF n % 2 = 1
               THEN IsRanked(arr, rec.median, (n + 1) \div 2)
               ELSE \E i \in FinitePositions(arr) : \E j \in FinitePositions(arr) :
                       /\ IsRanked(arr, arr[i].v, n \div 2)
                       /\ IsRanked(arr, arr[j].v, n \div 2 + 1)
                       /\ 2 * rec.median = arr[i].v + arr[j].v

\* The array [0.1, 0.3, 0.5, NaN].
ExampleArray ==
    <<Fin(Scale \div 10), Fin((3 * Scale) \div 10), Fin(Scale \div 2), NaN>>

\* C6: the summary of an array is computed over exactly its finite entries:
\* the count is their number and min, max and median are theirs; with no
\* finite entry the record holds only the count, 0; [0.1, 0.3, 0.5, NaN] gives
\* count 3, min 0.1, max 0.5, median 0.3; and each of the eight named metrics
\* is summarized from its own array.
C6_SummaryOverFinite ==
    pc = "stats_done" =>
        /\ DOMAIN summary =
              {"shape_quality", "radius_ratio", "aspect_proxy", "min_angle",
               "max_angle", "area", "min_edge", "max_edge"}
        /\ \A key \in DOMAIN summary : StatsOfFinite(q[key], summary[key])
        /\ q.shape_quality = ExampleArray =>
              /\ summary.shape_quality.n = 3
              /\ summary.shape_quality.min = Scale \div 10
              /\ summary.shape_quality.max = Scale \div 2
              /\ summary.shape_quality.median = (3 * Scale) \div 10

\* C6 witness: the summary of [0.1, 0.3, 0.5, NaN] counts three entries.
C6_Witness ==
    /\ pc = "stats_done"
    /\ q.shape_quality = ExampleArray
    /\ summary.shape_quality.n = 3
    /\ summary.shape_quality.median = (3 * Scale) \div 10

\* ------------------------------------------------------------ properties of the geometry

\* The three vertices of face i, as exact integers, are collinear or
\* coincide: the cross product of two edge vectors is zero.
Degenerate(i) ==
    LET u == VSub(V[F[i][2] + 1], V[F[i][1] + 1])
        w == VSub(V[F[i][3] + 1], V[F[i][1] + 1])
    IN /\ u[2] * w[3] - u[3] * w[2] = 0
       /\ u[3] * w[1] - u[1] * w[3] = 0
       /\ u[1] * w[2] - u[2] * w[1] = 0

\* C7: for every triangle shape_quality and radius_ratio are in [0, 1];
\* aspect_proxy is >= 1 or +inf, is +inf exactly when shape_quality is 0,
\* and is 1 / shape_quality otherwise.
C7_QualityRanges ==
    pc = "geom_done" =>
        \A i \in 1..Len(F) :
            /\ IsFinite(q.shape_quality[i])
            /\ q.shape_quality[i].v >= 0
            /\ q.shape_quality[i].v <= Scale
            /\ IsFinite(q.radius_ratio[i])
            /\ q.radius_ratio[i].v >= 0
            /\ q.radius_ratio[i].v <= Scale
            /\ \/ q.aspect_proxy[i] = PInf
               \/ IsFinite(q.aspect_proxy[i]) /\ q.aspect_proxy[i].v >= Scale
            /\ q.aspect_proxy[i] = PInf <=> q.shape_quality[i].v = 0
            /\ q.shape_quality[i].v # 0 =>
                  q.aspect_proxy[i] = Fin(RoundDiv(Scale * Scale, q.shape_quality[i].v))

\* C7 witness: a triangle that is neither degenerate nor equilateral, with
\* shape_quality strictly between 0 and 1 and a finite aspect_proxy above 1.
C7_Witness ==
    /\ pc = "geom_done"
    /\ q.shape_quality[1].v > 0
    /\ q.shape_quality[1].v < Scale
    /\ IsFinite(q.aspect_proxy[1])
    /\ q.aspect_proxy[1].v > Scale
    /\ q.radius_ratio[1].v > 0

\* C8: degenerate geometry raises nothing and resolves to the sentinels: a
\* triangle with coincident or collinear vertices has area 0, circumradius
\* +inf (as whenever area <= 1e-20), shape_quality 0, radius_ratio 0 and
\* aspect_proxy +inf; the inradius is 0 when the semi-perimeter is 0;
\* shape_quality is 0 when a^2+b^2+c^2 is 0; radius_ratio is 0 wherever the
\* circumradius is not finite and positive; and no output is NaN.
C8_DegenerateSentinels ==
    /\ pc \in {"geom_quality", "geom_done"} =>
          \A i \in 1..Len(F) :
              /\ ~IsNaN(kern[i].r_in)
              /\ ~IsNaN(kern[i].R_circ)
              /\ Degenerate(i) => kern[i].area = 0
              /\ kern[i].area <= AreaTol => kern[i].R_circ = PInf
              /\ kern[i].a + kern[i].b + kern[i].c = 0 => kern[i].r_in = Fin(0)
    /\ pc = "geom_done" =>
          \A i \in 1..Len(F) :
              /\ \A key \in QKeys : ~IsNaN(q[key][i])
              /\ Degenerate(i) =>
                    /\ q.area[i] = Fin(0)
                    /\ q.shape_quality[i] = Fin(0)
                    /\ q.radius_ratio[i] = Fin(0)
                    /\ q.aspect_proxy[i] = PInf
              /\ q.edge_a[i].v = 0 /\ q.edge_b[i].v = 0 /\ q.edge_c[i].v = 0 =>
                    q.shape_quality[i] = Fin(0)
              /\ ~(IsFinite(kern[i].R_circ) /\ kern[i].R_circ.v > 0) =>
                    q.radius_ratio[i] = Fin(0)

\* C8 witness: a triangle whose three vertices coincide, so that the
\* semi-perimeter is 0, with its sentinels.
C8_Witness ==
    /\ pc = "geom_done"
    /\ V[1] = V[2]
    /\ V[2] = V[3]
    /\ kern[1].r_in = Fin(0)
    /\ kern[1].R_circ = PInf
    /\ q.aspect_proxy[1] = PInf

====
